---- MODULE Spec2Model ----
(***************************************************************************)
(* Lizard Wizard Arena (rpg_game.py): the 2v2 battle engine.               *)
(*                                                                         *)
(* The engine (resolve_action, battle_2v2) is parametric in the roster it  *)
(* is handed.  The roster explored here has the shape of build_roster's    *)
(* (two factions, every ability kind and every drawback) with hit points,  *)
(* speeds and powers small enough that whole battles are enumerated.       *)
(*                                                                         *)
(* Units: an accuracy a stands for the float a / RollDen, a roll r for the *)
(* float r / RollDen in [0, 1); a target_defense_scale s stands for        *)
(* s / ScaleDen.  The defenses and scales used are ones for which Python's *)
(* int(defense * scale) equals the exact quotient.                         *)
(***************************************************************************)
EXTENDS Integers, Sequences, FiniteSets, TLC

\* ---------------------------------------------------------------- bounds
\* max_hp of the fighters explored.
MaxHp == 2
\* base speed of the fastest fighters explored.
MaxSpeed == 2

\* ------------------------------------------------------- random sources
\* random.random() is in [0, 1): the grid k / RollDen, k in 0 .. RollDen-1.
RollDen == 4
Rolls == 0 .. (RollDen - 1)
\* random.randint(-4, 4)
JitterMin == -4
JitterMax == 4
Jitters == JitterMin .. JitterMax
\* target_defense_scale is kept in hundredths.
ScaleDen == 100

Max(a, b) == IF a >= b THEN a ELSE b
Min(a, b) == IF a <= b THEN a ELSE b

\* Python's int(): truncation toward zero of n / d (d > 0).
IntTrunc(n, d) == IF n >= 0 THEN n \div d ELSE -((-n) \div d)

\* ------------------------------------------------------------- Ability
\* Ability(name, power, kind, accuracy=1.0, self_damage=0, self_slow=0,
\*         target_defense_scale=1.0, heal_amount=0)
Ability(name, power, kind, accuracy, self_damage, self_slow, scale, heal_amount) ==
    [name |-> name, power |-> power, kind |-> kind, accuracy |-> accuracy,
     self_damage |-> self_damage, self_slow |-> self_slow,
     target_defense_scale |-> scale, heal_amount |-> heal_amount]

\* ------------------------------------------------------------- roster
\* A roster entry: the Fighter prototype (hp = max_hp, speed = base speed).
Proto(name, faction, max_hp, defense, speed, abilities) ==
    [name |-> name, faction |-> faction, hp |-> max_hp, max_hp |-> max_hp,
     defense |-> defense, speed |-> speed, abilities |-> abilities]

\* Two fighters a side, as choose_team picks them.  The numbers are scaled down
\* from build_roster's; the drawbacks are where build_roster has them (recoil on
\* Nightfall Rift and Regrowth Ritual, self-slow on Molten Shedding and
\* Earthsplitter).  So that four fighters carry every kind and drawback, Lyra
\* is given Sable's guard_break and Verdra's heal.  Feint is an Ability at the
\* lower end of the accuracy range (accuracy=0.0) that carries both drawbacks,
\* which the dataclass admits and no entry of build_roster uses.
FlameDart == Ability("Flame Dart", 5, "attack", RollDen, 0, 0, ScaleDen, 0)
MoltenShedding == Ability("Molten Shedding", 0, "self_heal", RollDen, 0, 1, ScaleDen, 1)
NightfallRift == Ability("Nightfall Rift", 6, "heavy_attack", 2, 1, 0, ScaleDen, 0)
Earthsplitter == Ability("Earthsplitter", 6, "heavy_attack", 2, 0, 5, ScaleDen, 0)
Feint == Ability("Feint", 5, "attack", 0, 1, 1, ScaleDen, 0)
Hamstring == Ability("Hamstring Cut", 2, "guard_break", RollDen, 0, 0, 50, 0)
RegrowthRitual == Ability("Regrowth Ritual", 0, "self_heal", RollDen, 1, 0, ScaleDen, 2)

Pyra == Proto("Pyra", "reptile", MaxHp, 6, MaxSpeed, <<FlameDart, MoltenShedding>>)
Nox == Proto("Nox", "reptile", MaxHp, 7, MaxSpeed, <<NightfallRift>>)
Brakk == Proto("Brakk", "mammal", MaxHp, 50, MaxSpeed, <<Earthsplitter, Feint>>)
Lyra == Proto("Lyra", "mammal", MaxHp, 6, MaxSpeed + 1, <<Hamstring, RegrowthRitual>>)

build_roster == [reptile |-> <<Pyra, Nox>>, mammal |-> <<Brakk, Lyra>>]

\* ------------------------------------------------------------- Fighter
\* The fighters of a battle are objects; a team is a list of references.
reptiles == <<1, 2>>
mammals == <<3, 4>>
Ids == {1, 2, 3, 4}

\* choose_team: the prototype each Fighter of the battle is built from.  Its
\* name, faction, max_hp, defense and abilities are never assigned again, so
\* they are read from here; hp and speed are the state.
picked(id) ==
    IF id = 1 THEN Pyra ELSE IF id = 2 THEN Nox ELSE IF id = 3 THEN Brakk ELSE Lyra

\* Fighter.alive
alive(h) == h > 0

\* A take_damage that computes what is dealt and does not take it off hp.
take_damage_not_applied(h, amount) == h

\* A take_damage that does not stop at 0.
take_damage_unfloored(h, amount) == h - Max(amount, 0)

\* Fighter.take_damage: hp after the call (dealt = max(amount, 0)).
take_damage(h, amount) == Max(h - Max(amount, 0), 0)

\* A heal that does not stop at max_hp.
heal_unclamped(h, max_hp, amount) == h + Max(0, amount)

\* Fighter.heal: hp after the call.
heal(h, max_hp, amount) == Min(max_hp, h + Max(0, amount))

\* A second collection loop that runs over the reptiles again.
AskOrder_reptiles_twice == reptiles \o reptiles

\* The order in which battle_2v2 asks for actions: reptiles, then mammals.
AskOrder == reptiles \o mammals
\* Collection loops that hand choose_action the fighter's own team.
EnemyTeam_own(id) == IF id \in {reptiles[1], reptiles[2]} THEN reptiles ELSE mammals

EnemyTeam(id) == IF id \in {reptiles[1], reptiles[2]} THEN mammals ELSE reptiles

VARIABLES
    roster,     \* id -> the hp and speed of the roster's prototype Fighter
    hp,         \* id -> Fighter.hp
    speed,      \* id -> Fighter.speed
    pc,         \* "loop" | "choose" | "resolve" | "over": position in battle_2v2;
                \* "exit": main has returned
    turn,       \* position in AskOrder of the next fighter to be asked
    plans,      \* the PlannedActions of the round not yet resolved
    log,        \* what the latest resolve_action of the round reported
    outcome     \* the result line of a battle that is over and whose
                \* "Play another match?" is not answered yet, else "none"

vars == <<roster, hp, speed, pc, turn, plans, log, outcome>>

\* A choose_team that appends the roster's prototype itself.
selected_is_proto_itself == TRUE

\* choose_team appends Fighter(...), a new object: what a battle assigns to its
\* fighters does not reach the prototypes.
selected_is_proto == FALSE

\* The prototypes after a battle has assigned hp `h` and speeds `s`.
written_roster(r, h, s) ==
    IF selected_is_proto
    THEN [id \in Ids |-> [hp |-> h[id], speed |-> s[id]]]
    ELSE r

\* choose_team: hp=proto.max_hp and speed=proto.speed of the Fighter appended.
choose_team_hp(r, id) == IF selected_is_proto THEN r[id].hp ELSE picked(id).max_hp
choose_team_speed(r, id) == r[id].speed

\* A PlannedAction refers to its actor and target and names the ability by its
\* position in the actor's list.
AbilityOf(action) == picked(action.actor).abilities[action.ability]

\* The report of one resolve_action: the event of the primary effect with the
\* amount printed (healed or damage), the number of draws made from the random
\* source, the recoil printed (-1: none), the old speed printed (0: none), and
\* the speed the actor had when its action came up.
NoEvent ==
    [event |-> "none", actor |-> 0, ability |-> 0, target |-> 0, amount |-> 0,
     rolls |-> 0, recoil |-> -1, old_speed |-> 0, actor_speed |-> 0]

\* ------------------------------------------------------ pure functions
\* list_targets
list_targets(h, enemy_team) ==
    LET isAlive(id) == alive(h[id]) IN SelectSeq(enemy_team, isAlive)

\* choose_action: the PlannedActions the two prompts can produce.
choose_action(h, actor, enemy_team) ==
    LET targets == list_targets(h, enemy_team) IN
    IF targets = << >>
    THEN { [actor |-> actor, ability |-> a, target |-> actor] :
             a \in 1 .. Len(picked(actor).abilities) }
    ELSE { [actor |-> actor, ability |-> a, target |-> targets[t]] :
             a \in 1 .. Len(picked(actor).abilities), t \in 1 .. Len(targets) }

\* A calculate_damage that leaves the target's defense out.
calculate_damage_no_defense(ability, target, jitter) ==
    Max(ability.power + jitter, 1)

\* A calculate_damage without the floor of 1.
calculate_damage_unfloored(ability, target, jitter) ==
    ability.power + jitter
      - IntTrunc(target.defense * ability.target_defense_scale, ScaleDen)

\* calculate_damage, for the value jitter of random.randint(-4, 4).
calculate_damage(ability, target, jitter) ==
    LET base == ability.power + jitter
        effective_def == IntTrunc(target.defense * ability.target_defense_scale, ScaleDen)
        dmg == base - effective_def
    IN Max(dmg, 1)

\* random.random() <= ability.accuracy
roll_hits(roll, ability) == roll <= ability.accuracy

\* What the accuracy roll can decide: TRUE (hit) and FALSE (miss) as far as
\* some roll in [0, 1) gives it.
RollOutcomes(ability) == { roll_hits(roll, ability) : roll \in Rolls }

\* The damages calculate_damage can return, over the jitters.
Damages(ability, target) == { calculate_damage(ability, target, j) : j \in Jitters }

\* A self-slow that does not stop at 1.
slowed_unfloored(s, self_slow) == s - self_slow

\* The speed self_slow leaves the actor with.
slowed(s, self_slow) == Max(1, s - self_slow)

\* A resolve_action without its first test.
actor_can_act_unchecked(h, action) == TRUE

\* resolve_action's first test: actor.alive
actor_can_act(h, action) == alive(h[action.actor])

\* A primary effect that does not look whether the target is still up.
target_is_up_unchecked(h, action) == TRUE

\* resolve_action's test of the target: target.alive
target_is_up(h, action) == alive(h[action.target])

\* The branch resolve_action takes for its primary effect.
primary_event(h, action, hit) ==
    IF AbilityOf(action).kind = "self_heal" THEN "heal"
    ELSE IF ~target_is_up(h, action) THEN "wasted"
    ELSE IF hit THEN "hit"
    ELSE "miss"

\* A primary effect whose heal goes to the chosen target.
primary_hp_heals_target(h, action, event, damage) ==
    IF event = "heal"
    THEN [h EXCEPT ![action.target] =
            heal(h[action.target], picked(action.target).max_hp,
                 AbilityOf(action).heal_amount)]
    ELSE IF event = "hit"
    THEN [h EXCEPT ![action.target] =
            take_damage(h[action.target], damage)]
    ELSE h

\* hp after the primary effect: actor.heal(heal_amount), or
\* target.take_damage(calculate_damage(...)), or nothing.
primary_hp(h, action, event, damage) ==
    IF event = "heal"
    THEN [h EXCEPT ![action.actor] =
            heal(h[action.actor], picked(action.actor).max_hp,
                 AbilityOf(action).heal_amount)]
    ELSE IF event = "hit"
    THEN [h EXCEPT ![action.target] =
            take_damage(h[action.target], damage)]
    ELSE h

\* The amount printed with the primary effect: healed, or damage.
primary_amount(h, action, event, damage) ==
    IF event = "heal"
    THEN heal(h[action.actor], picked(action.actor).max_hp,
              AbilityOf(action).heal_amount) - h[action.actor]
    ELSE IF event = "hit"
    THEN damage
    ELSE 0

\* The draws the primary effect makes: random.random(), and random.randint()
\* on a hit.
primary_rolls(event) == IF event = "hit" THEN 2 ELSE IF event = "miss" THEN 1 ELSE 0

\* A recoil with the sign of the damage slipped.
recoil_effect_sign_slip(h, a, ability) ==
    IF ability.self_damage # 0
    THEN [h EXCEPT ![a] = Max(h[a] + ability.self_damage, 0)]
    ELSE h

\* The drawbacks of resolve_action: recoil, then self-slow.
recoil_effect(h, a, ability) ==
    IF ability.self_damage # 0
    THEN [h EXCEPT ![a] = take_damage(h[a], ability.self_damage)]
    ELSE h

slow_effect(s, a, ability) ==
    IF ability.self_slow # 0
    THEN [s EXCEPT ![a] = slowed(s[a], ability.self_slow)]
    ELSE s

\* A resolve_action that takes the recoil before the primary effect.
resolve_hp_recoil_first(h, action, hit, damage) ==
    IF ~actor_can_act(h, action)
    THEN h
    ELSE primary_hp(recoil_effect(h, action.actor, AbilityOf(action)), action,
                    primary_event(h, action, hit), damage)

\* resolve_action, for what the random source decides where it is asked (hit:
\* random.random() <= accuracy; damage: the value of calculate_damage): the hp
\* it leaves,
resolve_hp(h, action, hit, damage) ==
    IF ~actor_can_act(h, action)
    THEN h
    ELSE recoil_effect(primary_hp(h, action, primary_event(h, action, hit), damage),
                       action.actor, AbilityOf(action))

\* the speeds it leaves,
resolve_speed(h, s, action) ==
    IF ~actor_can_act(h, action)
    THEN s
    ELSE slow_effect(s, action.actor, AbilityOf(action))

\* and what it prints.
resolve_log(h, s, action, hit, damage) ==
    IF ~actor_can_act(h, action)
    THEN [event |-> "cannot_act", actor |-> action.actor, ability |-> action.ability,
          target |-> action.target, amount |-> 0, rolls |-> 0, recoil |-> -1,
          old_speed |-> 0, actor_speed |-> s[action.actor]]
    ELSE [event |-> primary_event(h, action, hit),
          actor |-> action.actor, ability |-> action.ability,
          target |-> action.target,
          amount |-> primary_amount(h, action, primary_event(h, action, hit), damage),
          rolls |-> primary_rolls(primary_event(h, action, hit)),
          recoil |-> IF AbilityOf(action).self_damage # 0
                     THEN Max(AbilityOf(action).self_damage, 0) ELSE -1,
          old_speed |-> IF AbilityOf(action).self_slow # 0 THEN s[action.actor] ELSE 0,
          actor_speed |-> s[action.actor]]

\* all_down
all_down(h, team) == \A i \in 1 .. Len(team) : ~alive(h[team[i]])

\* A sort that puts the slowest first.
sorts_before_ascending(s, p, q) == s[p.actor] <= s[q.actor]

\* key=lambda p: (p.actor.speed, random.random()), reverse=True: p can be put
\* before q when its actor is at least as fast; between equal speeds the
\* random second component decides either way.
sorts_before(s, p, q) == s[p.actor] >= s[q.actor]

\* plans.sort(...): the orders the sort can leave the plans `ps` in, one for
\* every outcome of the tiebreak.
RECURSIVE sorted_orders(_, _)
sorted_orders(s, ps) ==
    IF ps = {} THEN { << >> }
    ELSE UNION { { <<p>> \o rest : rest \in sorted_orders(s, ps \ {p}) } :
                   p \in { q \in ps : \A r \in ps : sorts_before(s, q, r) } }

\* A sort on the speed alone, key=lambda p: p.actor.speed: list.sort is stable,
\* so actors of equal speed stay in the order they were asked in.
sort_plans_stable(s, ps) ==
    { qs \in sorted_orders(s, { ps[i] : i \in 1 .. Len(ps) }) :
        \A i, j \in 1 .. Len(ps) :
            (i < j /\ s[ps[i].actor] = s[ps[j].actor]) =>
                \E k, l \in 1 .. Len(qs) : k < l /\ qs[k] = ps[i] /\ qs[l] = ps[j] }

sort_plans(s, ps) == sorted_orders(s, { ps[i] : i \in 1 .. Len(ps) })

\* A result that tests for the mammals' defeat first.
battle_result_no_draw(h) ==
    IF all_down(h, mammals) THEN "Reptiles win" ELSE "Mammals win"

\* The line battle_2v2 prints after the loop.
battle_result(h) ==
    IF all_down(h, reptiles) /\ all_down(h, mammals) THEN "Draw"
    ELSE IF all_down(h, mammals) THEN "Reptiles win"
    ELSE "Mammals win"

\* A loop test with `or` for `and`.
battle_goes_on_either(h) == ~all_down(h, reptiles) \/ ~all_down(h, mammals)

\* The test of battle_2v2's while loop.
battle_goes_on(h) == ~all_down(h, reptiles) /\ ~all_down(h, mammals)

\* --------------------------------------------------------------- Init
\* main: both teams chosen (choose_team builds each Fighter with hp = max_hp and
\* the prototype's speed), battle_2v2 entered.
Init ==
    /\ roster = [id \in Ids |-> [hp |-> picked(id).hp, speed |-> picked(id).speed]]
    /\ hp = [id \in Ids |-> choose_team_hp(roster, id)]
    /\ speed = [id \in Ids |-> choose_team_speed(roster, id)]
    /\ pc = "loop"
    /\ turn = 1
    /\ plans = << >>
    /\ log = NoEvent
    /\ outcome = "none"

\* ------------------------------------------------------------ actions
\* while not all_down(reptiles) and not all_down(mammals): a round starts.
RoundStart ==
    /\ pc = "loop"
    /\ battle_goes_on(hp)
    /\ pc' = "choose"
    /\ turn' = 1
    /\ plans' = << >>
    /\ log' = NoEvent
    /\ UNCHANGED <<roster, hp, speed, outcome>>

\* The loop exits; the result is printed.
BattleOver ==
    /\ pc = "loop"
    /\ ~battle_goes_on(hp)
    /\ pc' = "over"
    /\ outcome' = battle_result(hp)
    /\ UNCHANGED <<roster, hp, speed, turn, plans, log>>

\* After the two collection loops: the sort, and on to resolution.
AfterAsk(ps) ==
    IF turn = Len(AskOrder)
    THEN /\ plans' \in sort_plans(speed, ps)
         /\ pc' = "resolve"
         /\ turn' = 1
    ELSE /\ plans' = ps
         /\ pc' = "choose"
         /\ turn' = turn + 1

\* One iteration of a collection loop for a living fighter.
ChooseAction ==
    /\ pc = "choose"
    /\ alive(hp[AskOrder[turn]])
    /\ \E plan \in choose_action(hp, AskOrder[turn], EnemyTeam(AskOrder[turn])) :
          AfterAsk(Append(plans, plan))
    /\ UNCHANGED <<roster, hp, speed, log, outcome>>

\* One iteration of a collection loop for a downed fighter: nothing is asked.
SkipDowned ==
    /\ pc = "choose"
    /\ ~alive(hp[AskOrder[turn]])
    /\ AfterAsk(plans)
    /\ UNCHANGED <<roster, hp, speed, log, outcome>>

\* for action in plans: resolve_action(action).  One action per path through
\* resolve_action; the random source is consulted only on the paths that
\* reach random.random() and random.randint().
Resolved(hit, damage) ==
    /\ hp' = resolve_hp(hp, Head(plans), hit, damage)
    /\ speed' = resolve_speed(hp, speed, Head(plans))
    /\ log' = resolve_log(hp, speed, Head(plans), hit, damage)
    /\ roster' = written_roster(roster, hp', speed')
    /\ plans' = Tail(plans)
    /\ UNCHANGED <<pc, turn, outcome>>

Resolving == pc = "resolve" /\ plans # << >>
ActorAlive == alive(hp[Head(plans).actor])
TargetAlive == alive(hp[Head(plans).target])
IsHeal == AbilityOf(Head(plans)).kind = "self_heal"

\* if not actor.alive: ... return
ResolveCannotAct ==
    /\ Resolving
    /\ ~ActorAlive
    /\ Resolved(FALSE, 0)

\* if ability.kind == "self_heal"
ResolveHeal ==
    /\ Resolving
    /\ ActorAlive
    /\ IsHeal
    /\ Resolved(FALSE, 0)

\* if not target.alive
ResolveWasted ==
    /\ Resolving
    /\ ActorAlive
    /\ ~IsHeal
    /\ ~TargetAlive
    /\ Resolved(FALSE, 0)

\* elif random.random() <= ability.accuracy: damage = calculate_damage(...)
ResolveHit ==
    /\ Resolving
    /\ ActorAlive
    /\ ~IsHeal
    /\ TargetAlive
    /\ TRUE \in RollOutcomes(AbilityOf(Head(plans)))
    /\ \E damage \in Damages(AbilityOf(Head(plans)), picked(Head(plans).target)) :
         Resolved(TRUE, damage)

\* else: the roll was above the accuracy
ResolveMiss ==
    /\ Resolving
    /\ ActorAlive
    /\ ~IsHeal
    /\ TargetAlive
    /\ FALSE \in RollOutcomes(AbilityOf(Head(plans)))
    /\ Resolved(FALSE, 0)

\* The for loop is exhausted: round_no += 1, back to the loop test.
RoundEnd ==
    /\ pc = "resolve"
    /\ plans = << >>
    /\ pc' = "loop"
    /\ UNCHANGED <<roster, hp, speed, turn, plans, log, outcome>>

\* main: "Play another match?" answered y: both teams are chosen again and
\* battle_2v2 is entered again.
PlayAgain ==
    /\ pc = "over"
    /\ hp' = [id \in Ids |-> choose_team_hp(roster, id)]
    /\ speed' = [id \in Ids |-> choose_team_speed(roster, id)]
    /\ pc' = "loop"
    /\ turn' = 1
    /\ plans' = << >>
    /\ outcome' = "none"
    /\ UNCHANGED <<roster, log>>

\* main: any other answer: main returns.
Quit ==
    /\ pc = "over"
    /\ pc' = "exit"
    /\ outcome' = "none"
    /\ UNCHANGED <<roster, hp, speed, turn, plans, log>>

Next ==
    \/ RoundStart
    \/ ChooseAction
    \/ SkipDowned
    \/ ResolveCannotAct
    \/ ResolveHeal
    \/ ResolveWasted
    \/ ResolveHit
    \/ ResolveMiss
    \/ RoundEnd
    \/ BattleOver
    \/ PlayAgain
    \/ Quit

Spec == Init /\ [][Next]_vars

\* ------------------------------------------------ build_roster's numbers
\* Flame Dart, its owner Pyra and Brakk as build_roster has them (Brakk's own
\* abilities are not used here).
RosterFlameDart == Ability("Flame Dart", 24, "attack", RollDen, 0, 0, ScaleDen, 0)
RosterPyra == Proto("Pyra", "reptile", 100, 8, 14, <<RosterFlameDart>>)
RosterBrakk == Proto("Brakk", "mammal", 120, 13, 9, << >>)

\* Pyra's Flame Dart planned on Brakk, both at full hp.
DamageInit ==
    /\ roster = [id \in {reptiles[1], mammals[1]} |->
                   IF id = reptiles[1]
                   THEN [hp |-> RosterPyra.hp, speed |-> RosterPyra.speed]
                   ELSE [hp |-> RosterBrakk.hp, speed |-> RosterBrakk.speed]]
    /\ hp = [id \in DOMAIN roster |->
               IF id = reptiles[1] THEN RosterPyra.max_hp ELSE RosterBrakk.max_hp]
    /\ speed = [id \in DOMAIN roster |-> roster[id].speed]
    /\ pc = "resolve"
    /\ turn = 1
    /\ plans = << [actor |-> reptiles[1], ability |-> 1, target |-> mammals[1]] >>
    /\ log = NoEvent
    /\ outcome = "none"

\* resolve_action's hit branch for that action, as often as Brakk stands:
\* damage = calculate_damage(...); target.take_damage(damage).
FlameDartHits ==
    /\ alive(hp[Head(plans).actor])
    /\ alive(hp[Head(plans).target])
    /\ \E jitter \in Jitters :
         LET damage == calculate_damage(RosterFlameDart, RosterBrakk, jitter) IN
         /\ hp' = [hp EXCEPT ![Head(plans).target] = take_damage(@, damage)]
         /\ log' = [event |-> "hit", actor |-> Head(plans).actor,
                    ability |-> Head(plans).ability, target |-> Head(plans).target,
                    amount |-> damage, rolls |-> 2, recoil |-> -1, old_speed |-> 0,
                    actor_speed |-> speed[Head(plans).actor]]
    /\ UNCHANGED <<roster, speed, pc, turn, plans, outcome>>

DamageNext == FlameDartHits

DamageSpec == DamageInit /\ [][DamageNext]_vars

\* The battle is one sequential loop, so a step that can be taken is taken; and
\* the random source is fair: a roll that can hit does not miss for ever.
FairSpec == Spec /\ WF_vars(Next) /\ SF_vars(ResolveHit)

\* ------------------------------------------------------------- claims
\* The ability and the target's prototype of the latest report.
LogAbility == picked(log.actor).abilities[log.ability]
SomeAlive(team) == \E i \in 1 .. Len(team) : hp[team[i]] > 0
AllDowned(team) == \A i \in 1 .. Len(team) : hp[team[i]] = 0

\* C1: in every reachable state of a team battle every fighter's hp is within
\* [0, max_hp].
C1_HpInRange ==
    \A id \in Ids : 0 <= hp[id] /\ hp[id] <= picked(id).max_hp

\* A heal has just been cut short by max_hp while another fighter lies at 0.
C1_Witness ==
    /\ log.event = "heal"
    /\ log.amount < LogAbility.heal_amount
    /\ hp[log.actor] = picked(log.actor).max_hp
    /\ \E id \in Ids : hp[id] = 0

\* C2: every fighter's speed is >= 1 in every reachable state; a step of a
\* battle changes a fighter's speed only when it resolves that fighter's own action, the fighter
\* being alive and the ability having self_slow > 0, and then the speed becomes
\* max(1, speed - self_slow); a living actor resolving such an ability always
\* ends with that speed.
C2_SpeedFloor ==
    /\ [](\A id \in Ids : speed[id] >= 1)
    /\ [][ /\ \A id \in Ids : (pc # "over" /\ speed'[id] # speed[id]) =>
                /\ Resolving
                /\ id = Head(plans).actor
                /\ hp[id] > 0
                /\ AbilityOf(Head(plans)).self_slow > 0
           /\ (Resolving /\ hp[Head(plans).actor] > 0
                 /\ AbilityOf(Head(plans)).self_slow > 0) =>
                LET id == Head(plans).actor
                    lowered == speed[id] - AbilityOf(Head(plans)).self_slow
                IN speed'[id] = IF lowered < 1 THEN 1 ELSE lowered
         ]_vars

\* A self-slow larger than the speed left has just put its actor at speed 1.
C2_Witness ==
    /\ log.old_speed > 0
    /\ log.old_speed - LogAbility.self_slow < 1
    /\ speed[log.actor] = 1

\* C3: within a round, the speed the previously resolved actor had when its
\* action resolved is >= the speed of the actor whose action resolves next.
C3_ResolvedBySpeed ==
    (Resolving /\ log.event # "none") =>
        log.actor_speed >= speed[Head(plans).actor]

\* The previous actor has slowed itself below the speed of the next actor, which
\* is still to act.
C3_Witness ==
    /\ Resolving
    /\ log.event # "none"
    /\ log.old_speed > 0
    /\ speed[log.actor] < speed[Head(plans).actor]

\* C4: the battle ends only at a round boundary, and there exactly when a team
\* is fully downed; the outcome printed is Draw iff both teams are downed,
\* Reptiles win iff the mammals are downed and a reptile is alive, Mammals win
\* iff the reptiles are downed and a mammal is alive.
C4_OutcomeMatches ==
    /\ outcome = "Draw" <=> (AllDowned(reptiles) /\ AllDowned(mammals))
    /\ outcome = "Reptiles win" <=> (AllDowned(mammals) /\ SomeAlive(reptiles))
    /\ outcome = "Mammals win" <=> (AllDowned(reptiles) /\ SomeAlive(mammals))

C4_BattleEnd ==
    /\ [](pc = "over" => C4_OutcomeMatches)
    /\ [](pc # "over" => outcome = "none")
    /\ [][ /\ pc' = "over" => pc = "loop" /\ hp' = hp
           /\ pc = "loop" =>
                (pc' = "over" <=> (AllDowned(reptiles) \/ AllDowned(mammals)))
         ]_vars

\* The battle is over and both teams are down.
C4_Witness ==
    /\ pc = "over"
    /\ outcome = "Draw"
    /\ AllDowned(reptiles) /\ AllDowned(mammals)

\* The step resolves the action of a living actor with a living target and an
\* ability that is no self_heal: the case in which the accuracy is rolled.
RollCase == Resolving /\ ActorAlive /\ ~IsHeal /\ TargetAlive

\* C5: for a living actor using a non-heal ability on a living target, an
\* ability of accuracy 1.0 never misses and an ability of accuracy 0.0 always
\* misses, the target's hp unchanged, whatever the roll in [0, 1).
C5_AccuracyDecides ==
    [][ RollCase =>
          /\ AbilityOf(Head(plans)).accuracy = RollDen => log'.event = "hit"
          /\ AbilityOf(Head(plans)).accuracy = 0 =>
                /\ log'.event = "miss"
                /\ hp'[Head(plans).target] = hp[Head(plans).target]
      ]_vars

\* C6: when a living actor's non-heal ability hits a living target, the damage
\* is max(1, power + jitter - floor(defense * scale)) for a jitter in -4 .. 4,
\* so at least 1, and the target's hp becomes max(0, hp - damage), strictly
\* lower than before.
C6_HitDamage ==
    [][ (RollCase /\ log'.event = "hit") =>
          LET t == Head(plans).target
              ability == AbilityOf(Head(plans))
              reduced == (picked(t).defense * ability.target_defense_scale) \div 100
              damage == log'.amount
          IN /\ \E jitter \in -4 .. 4 :
                  LET raw == ability.power + jitter - reduced
                  IN damage = IF raw < 1 THEN 1 ELSE raw
             /\ damage >= 1
             /\ hp'[t] = (IF hp[t] - damage < 0 THEN 0 ELSE hp[t] - damage)
             /\ hp'[t] < hp[t]
      ]_vars

\* A hit on a target whose defense exceeds anything the ability can roll has
\* just done 1 damage.
C6_Witness ==
    /\ log.event = "hit"
    /\ picked(log.target).defense > LogAbility.power + 4
    /\ LogAbility.target_defense_scale = 100
    /\ log.amount = 1
    /\ hp[log.target] = picked(log.target).max_hp - 1

\* C7: resolving a self_heal of a living actor draws nothing from the random
\* source, heals the actor by min(max_hp, hp + heal_amount) - hp, leaves it,
\* after the recoil, at max(0, min(max_hp, hp + heal_amount) - self_damage), and
\* changes neither hp nor speed of any other fighter.
C7_HealEffect ==
    [][ (Resolving /\ ActorAlive /\ IsHeal) =>
          LET a == Head(plans).actor
              ability == AbilityOf(Head(plans))
              raised == hp[a] + ability.heal_amount
              healedTo == IF raised > picked(a).max_hp THEN picked(a).max_hp ELSE raised
              left == healedTo - ability.self_damage
          IN /\ log'.event = "heal"
             /\ log'.rolls = 0
             /\ log'.amount = healedTo - hp[a]
             /\ hp'[a] = IF left < 0 THEN 0 ELSE left
             /\ \A o \in Ids \ {a} : hp'[o] = hp[o] /\ speed'[o] = speed[o]
      ]_vars

\* A heal has just been cut short by max_hp: it healed, but less than
\* heal_amount.
C7_Witness ==
    /\ log.event = "heal"
    /\ log.amount > 0
    /\ log.amount < LogAbility.heal_amount

\* C8: resolving the action of an actor that is downed changes no fighter's hp
\* or speed; the report is "cannot act" alone: no damage, heal, recoil or
\* self-slow, and nothing drawn from the random source.
C8_DownedActorNoEffect ==
    [][ (Resolving /\ ~ActorAlive) =>
          /\ hp' = hp
          /\ speed' = speed
          /\ log'.event = "cannot_act"
          /\ log'.amount = 0
          /\ log'.rolls = 0
          /\ log'.recoil = -1
          /\ log'.old_speed = 0
      ]_vars

\* The action of a fighter downed earlier in the round has just come up, its
\* ability one with a drawback and its target alive.
C8_Witness ==
    /\ log.event = "cannot_act"
    /\ hp[log.actor] = 0
    /\ hp[log.target] > 0
    /\ (LogAbility.self_slow > 0 \/ LogAbility.self_damage > 0)

\* C9: resolving a non-heal action of a living actor whose target is downed is a
\* wasted action: nothing is drawn from the random source, no damage is
\* reported, the target's hp stays 0, and no fighter other than the actor
\* changes hp or speed.
C9_WastedAction ==
    [][ (Resolving /\ ActorAlive /\ ~IsHeal /\ ~TargetAlive) =>
          /\ log'.event = "wasted"
          /\ log'.rolls = 0
          /\ log'.amount = 0
          /\ hp'[Head(plans).target] = 0
          /\ \A o \in Ids \ {Head(plans).actor} :
                hp'[o] = hp[o] /\ speed'[o] = speed[o]
      ]_vars

\* An action has just been wasted on a target downed earlier in the round.
C9_Witness ==
    /\ log.event = "wasted"
    /\ hp[log.target] = 0
    /\ log.target # log.actor

\* No action of the round still to be resolved uses a self_heal ability.
NoHealPlanned ==
    \A i \in 1 .. Len(plans) : AbilityOf(plans[i]).kind # "self_heal"

\* C10 as stated: whatever the players select, under fair rolls the battle
\* eventually ends.
C10_Terminates == <>(pc = "over")

\* C10: under fair rolls the battle eventually ends, unless the players keep
\* selecting self_heal abilities for ever.
C10_TerminatesUnlessHealing ==
    (<>[]NoHealPlanned) => <>(pc = "over")

\* A battle has ended with one team standing.
C10_Witness ==
    /\ pc = "over"
    /\ outcome # "Draw"
    /\ log.event = "hit"

\* The fighters whose actions are in the plans `ps`, the living fighters, and
\* the fighters the collection loops have passed.
Actors(ps) == { ps[i].actor : i \in 1 .. Len(ps) }
Living == { id \in Ids : hp[id] > 0 }
Asked == { AskOrder[i] : i \in 1 .. (turn - 1) }

\* C11: during collection the plans hold exactly one action of every living
\* fighter asked so far and none of a downed one, and no hp or speed changes;
\* when resolution is about to start (nothing of the round resolved yet) the
\* plans hold exactly one action of every fighter alive at the start of the
\* round; resolution is entered from the end of collection only.
C11_CollectedBeforeResolution ==
    /\ [](pc = "choose" =>
            /\ Actors(plans) = Living \cap Asked
            /\ Len(plans) = Cardinality(Living \cap Asked))
    /\ []((pc = "resolve" /\ log.event = "none") =>
            /\ Actors(plans) = Living
            /\ Len(plans) = Cardinality(Living))
    /\ [][ /\ pc = "choose" => (hp' = hp /\ speed' = speed)
           /\ (pc # "resolve" /\ pc' = "resolve") =>
                (pc = "choose" /\ turn = Len(AskOrder))
           /\ (pc = "resolve" /\ plans # << >>) => Len(plans') = Len(plans) - 1
         ]_vars

\* Collection has just ended in a round that a downed fighter sits out: three
\* actions are about to be resolved.
C11_Witness ==
    /\ pc = "resolve"
    /\ log.event = "none"
    /\ Len(plans) = 3
    /\ Cardinality(Living) = 3

\* C12: the fighters of every battle, the first and any later one of the
\* session, start with hp = max_hp and the base speed of the roster, and the
\* roster's prototypes keep their hp and speed whatever happens in a battle.
C12_FreshFighters ==
    /\ [](roster = [id \in Ids |-> [hp |-> picked(id).hp, speed |-> picked(id).speed]])
    /\ [][ (pc = "over" /\ pc' = "loop") =>
              \A id \in Ids : /\ hp'[id] = picked(id).max_hp
                              /\ speed'[id] = picked(id).speed
         ]_vars

\* A later match is about to start: the last report of the match before is a
\* hit with a self-slow, its target is at full hp again and its actor at base
\* speed again.
C12_Witness ==
    /\ pc = "loop"
    /\ log.event = "hit"
    /\ log.old_speed > 0
    /\ log.amount > 0
    /\ hp[log.target] = picked(log.target).max_hp
    /\ speed[log.actor] = picked(log.actor).speed

\* C13 as stated: Flame Dart (power 24) of the speed-14 fighter hitting a target
\* of defense 13 does max(1, 24 + jitter - 13) damage, which lies in 8 .. 16.
C13_FlameDartRange ==
    log.event = "hit" =>
        /\ \E jitter \in -4 .. 4 :
              log.amount = (IF 24 + jitter - 13 < 1 THEN 1 ELSE 24 + jitter - 13)
        /\ log.amount \in 8 .. 16

\* C13: Flame Dart (power 24) of the speed-14 fighter hitting a target of
\* defense 13 does max(1, 24 + jitter - 13) damage, which lies in 7 .. 15.
C13_FlameDartRangeExact ==
    log.event = "hit" =>
        /\ \E jitter \in -4 .. 4 :
              log.amount = (IF 24 + jitter - 13 < 1 THEN 1 ELSE 24 + jitter - 13)
        /\ log.amount \in 7 .. 15

\* The speed-14 fighter's Flame Dart has hit the defense-13 target twice, for
\* the most and then for the least it can do.
C13_Witness ==
    /\ log.event = "hit"
    /\ speed[log.actor] = 14
    /\ log.amount = 7
    /\ hp[log.target] = 120 - 15 - 7

\* In the plans `ps` the action of fighter a comes before the action of b.
ResolvesBefore(ps, a, b) ==
    \E i, j \in 1 .. Len(ps) : i < j /\ ps[i].actor = a /\ ps[j].actor = b

\* C14: whenever the last action of a round is about to be collected and the
\* plans sorted, for any two living fighters a, b of equal speed, of the same
\* team or not, it is possible that the sort puts a's action before b's (and,
\* a and b exchanged, b's before a's), in every round and whatever was resolved
\* before.
C14_TiebreakEitherWay ==
    \A a, b \in Ids :
        (/\ pc = "choose"
         /\ turn = Len(AskOrder)
         /\ a # b
         /\ alive(hp[a]) /\ alive(hp[b])
         /\ speed[a] = speed[b])
        => ENABLED (Next /\ pc' = "resolve" /\ ResolvesBefore(plans', a, b))

\* In a round after the first, a mammal's action has been sorted in front of
\* the action of a reptile of equal speed, which was asked before it.
C14_Witness ==
    /\ pc = "resolve"
    /\ log.event = "none"
    /\ Len(plans) >= 2
    /\ plans[1].actor = mammals[1]
    /\ plans[2].actor = reptiles[1]
    /\ speed[plans[1].actor] = speed[plans[2].actor]
    /\ \E id \in Ids : hp[id] < picked(id).max_hp

\* C15: when a living actor resolves an ability, the primary effect comes
\* first, whatever it is (hit, miss, wasted, heal); with self_damage > 0 the
\* actor's hp then becomes max(0, hp after the primary effect - self_damage);
\* with self_slow > 0 its speed then becomes max(1, speed - self_slow), also
\* when the recoil has just downed it.
C15_DrawbacksAfterPrimary ==
    [][ (Resolving /\ ActorAlive) =>
          LET a == Head(plans).actor
              t == Head(plans).target
              ability == AbilityOf(Head(plans))
              raised == hp[a] + ability.heal_amount
              afterPrimary ==
                  IF log'.event = "heal"
                  THEN (IF raised > picked(a).max_hp THEN picked(a).max_hp ELSE raised)
                  ELSE IF log'.event = "hit" /\ t = a
                  THEN (IF hp[a] - log'.amount < 0 THEN 0 ELSE hp[a] - log'.amount)
                  ELSE hp[a]
              afterRecoil == afterPrimary - ability.self_damage
              lowered == speed[a] - ability.self_slow
          IN /\ log'.event \in {"hit", "miss", "wasted", "heal"}
             /\ (log'.event = "hit" /\ t # a) =>
                    hp'[t] = (IF hp[t] - log'.amount < 0 THEN 0 ELSE hp[t] - log'.amount)
             /\ ability.self_damage > 0 =>
                    /\ hp'[a] = (IF afterRecoil < 0 THEN 0 ELSE afterRecoil)
                    /\ log'.recoil = ability.self_damage
             /\ ability.self_damage = 0 => hp'[a] = afterPrimary
             /\ ability.self_slow > 0 =>
                    /\ speed'[a] = (IF lowered < 1 THEN 1 ELSE lowered)
                    /\ log'.old_speed = speed[a]
      ]_vars

\* An action that did not hit has just cost its actor the recoil that downed it
\* and, after that, the self-slow.
C15_Witness ==
    /\ log.event \in {"miss", "wasted"}
    /\ log.recoil > 0
    /\ log.old_speed > 0
    /\ hp[log.actor] = 0
    /\ speed[log.actor] < log.old_speed

\* C16: in a step of a battle a fighter's hp rises only when that fighter, being
\* alive, resolves a self_heal ability of its own; nothing else raises any hp.
C16_HpRisesOnlyByOwnHeal ==
    [][ pc # "over" =>
          \A id \in Ids :
              hp'[id] > hp[id] =>
                  /\ pc = "resolve" /\ plans # << >>
                  /\ Head(plans).actor = id
                  /\ hp[id] > 0
                  /\ picked(id).abilities[Head(plans).ability].kind = "self_heal"
      ]_vars

\* A heal without recoil has just raised its actor's hp while another fighter
\* stays damaged.
C16_Witness ==
    /\ log.event = "heal"
    /\ log.amount > 0
    /\ log.recoil = -1
    /\ \E id \in Ids \ {log.actor} : hp[id] > 0 /\ hp[id] < picked(id).max_hp

\* C17: a fighter whose speed is below its base speed during a battle has its
\* base speed again later in the same battle (unless the battle ends first).
C17_SlowIsTemporary ==
    \A id \in Ids :
        []((speed[id] < picked(id).speed /\ pc \notin {"over", "exit"}) =>
              <>(speed[id] = picked(id).speed \/ pc = "over"))

\* C18: within a battle a fighter whose hp is 0 keeps hp 0 in every step, and
\* no step adds an action of it to the plans.
C18_DownedStaysDowned ==
    [][ pc # "over" =>
          \A id \in Ids :
              hp[id] = 0 =>
                  /\ hp'[id] = 0
                  /\ \A i \in 1 .. Len(plans') :
                        plans'[i].actor = id =>
                            \E j \in 1 .. Len(plans) : plans[j] = plans'[i]
      ]_vars

\* A downed fighter has just been passed over in the collection of a round in
\* which a fighter with a heal is alive and damaged.
C18_Witness ==
    /\ pc = "choose"
    /\ turn > 1
    /\ hp[AskOrder[turn - 1]] = 0
    /\ \A i \in 1 .. Len(plans) : plans[i].actor # AskOrder[turn - 1]
    /\ \E id \in Ids :
          /\ hp[id] > 0 /\ hp[id] < picked(id).max_hp
          /\ \E k \in 1 .. Len(picked(id).abilities) :
                picked(id).abilities[k].kind = "self_heal"

\* The fighters of a team, and the team a fighter faces.
Members(team) == { team[i] : i \in 1 .. Len(team) }
Opponents(id) == IF id \in Members(reptiles) THEN Members(mammals) ELSE Members(reptiles)

\* C19: every planned action targets a fighter of the opposing team, alive when
\* the action was selected; whenever a living fighter is asked, the opposing
\* team has a living member (the fallback target = actor is never taken); and
\* every hit lands on a fighter of the opposing team.
C19_TargetsAreLivingEnemies ==
    /\ [](\A i \in 1 .. Len(plans) : plans[i].target \in Opponents(plans[i].actor))
    /\ []((pc = "choose" /\ hp[AskOrder[turn]] > 0) =>
             \E e \in Opponents(AskOrder[turn]) : hp[e] > 0)
    /\ [][ /\ \A i \in 1 .. Len(plans') :
                (\A j \in 1 .. Len(plans) : plans[j] # plans'[i]) =>
                    /\ plans'[i].target # plans'[i].actor
                    /\ hp[plans'[i].target] > 0
           /\ (pc = "resolve" /\ plans # << >> /\ log'.event = "hit") =>
                /\ log'.target \in Opponents(log'.actor)
                /\ \A id \in Ids \ Opponents(log'.actor) :
                      id # log'.actor => hp'[id] = hp[id]
         ]_vars

\* An action has just been selected against the one opponent still standing.
C19_Witness ==
    /\ pc \in {"choose", "resolve"}
    /\ log.event = "none"
    /\ plans # << >>
    /\ LET p == plans[Len(plans)]
       IN /\ hp[p.target] > 0
          /\ \E e \in Opponents(p.actor) \ {p.target} : hp[e] = 0

\* C20: the step after which both teams are down for the first time (the last
\* hp-reducing effect of a battle that ends in a draw) is the resolution of an
\* ability with self_damage > 0 by a living actor, whose primary effect did not
\* touch the actor and whose recoil takes the actor, the last of its team
\* standing, to 0; so without such an ability in the final round there is no
\* draw.
C20_DrawOnlyByRecoil ==
    [][ (/\ \E id \in Ids : hp[id] > 0
         /\ \A id \in Ids : hp'[id] = 0) =>
          /\ pc = "resolve" /\ plans # << >>
          /\ LET a == Head(plans).actor
                 ability == picked(a).abilities[Head(plans).ability]
             IN /\ hp[a] > 0
                /\ ability.self_damage > 0
                /\ log'.recoil = ability.self_damage
                /\ log'.event = "hit" => log'.target # a
                /\ hp'[a] = 0
                /\ \A m \in Ids \ Opponents(a) : m # a => hp[m] = 0
      ]_vars

\* A battle has ended in a draw: the last action resolved was a hit that downed
\* the last opponent, with a recoil that downed its actor.
C20_Witness ==
    /\ pc = "over"
    /\ outcome = "Draw"
    /\ log.event = "hit"
    /\ log.recoil > 0
    /\ hp[log.actor] = 0
    /\ hp[log.target] = 0

====
